---- MODULE Spec2Model ----
(***************************************************************************)
(* The ingestion sink of goodmetrics: the send queue, the consumer         *)
(* (consume_stuff), the per-metric attempt loop (send_some), the binary    *)
(* COPY writer (run_a_batch, write_and_close) and the error classifier     *)
(* (handle_error_and_should_it_retry), against a model of the database     *)
(* schema.                                                                 *)
(*                                                                         *)
(* Names (metrics, dimensions, measurements, SQL identifiers) are one      *)
(* character strings; Byte gives the byte that orders them in a BTreeMap.  *)
(* A Dimension or Measurement is modelled by the variant of its `value`    *)
(* ("None" when the protobuf oneof is unset); payloads are not modelled.   *)
(***************************************************************************)
EXTENDS Integers, Sequences, FiniteSets, TLC

\* ------------------------------------------------------------------ bounds

\* Datums the producers enqueue in one run of the sink.
MaxDatums == 2
\* Datums in one enqueued batch.
MaxBatchLen == 2
\* COPY statements of one task that are counted (the count saturates).
MaxCopies == 6
\* Datums of the batch handed to run_a_batch on its own.
MaxArgLen == 2
\* Retries after a schema fix that the further tasks of a working set make.
MaxCrowdFixes == 1
\* max_conns of new_connection.
max_conns == 16

\* ------------------------------------------------------------ name universe

Metrics == {"m", "n"}
DimNames == {"A", "a"}
MeasNames == {"a", "v"}
TimeColumn == "time"

Byte(s) ==
    CASE s = "A" -> 65
      [] s = "a" -> 97
      [] s = "m" -> 109
      [] s = "n" -> 110
      [] s = "v" -> 118

\* ddl::clean_id: lowercase, other characters replaced, leading digits cut.
clean_id(s) == IF s = "A" THEN "a" ELSE s

\* The least name of a non-empty set, in byte order.
FirstKey(S) == CHOOSE k \in S : \A o \in S : Byte(k) <= Byte(o)

\* BTreeMap::keys(): the keys in ascending byte order.
RECURSIVE keys(_)
keys(S) == IF S = {} THEN << >> ELSE << FirstKey(S) >> \o keys(S \ {FirstKey(S)})

\* BTreeMap::values(): the values in the order of their keys.
values(map) == [i \in 1..Len(keys(DOMAIN map)) |-> map[keys(DOMAIN map)[i]]]

EmptyMap == [k \in {} |-> "None"]

\* All maps from a subset of names to one of vals.
Maps(names, vals) == UNION {[D -> vals] : D \in SUBSET names}

\* -------------------------------------------------------- type conversion

DimensionValues == {"String", "Number", "Boolean", "None"}
MeasurementValues == {"I64", "F64", "StatisticSet", "Histogram", "None"}

\* TypeConverter::measurement_sql_type (Inumber is I64, Fnumber is F64).
measurement_sql_type(measurement) ==
    CASE measurement = "I64" -> "INT8"
      [] measurement = "F64" -> "FLOAT8"
      [] measurement = "StatisticSet" -> "statistic_set"
      [] measurement = "Histogram" -> "JSONB"
      [] OTHER -> "None"

\* TypeConverter::dimension_sql_type.
dimension_sql_type(dimension) ==
    CASE dimension = "String" -> "TEXT"
      [] dimension = "Number" -> "INT8"
      [] dimension = "Boolean" -> "BOOL"
      [] OTHER -> "None"

\* collect() of (name, type) pairs into a BTreeMap: a later pair replaces an
\* earlier one of the same name. `entries` is one datum's map, `acc` the map
\* collected from the datums before it.
CollectInto(acc, entries, sql_type(_)) ==
    LET valued == {k \in DOMAIN entries : sql_type(entries[k]) # "None"}
    IN  [k \in DOMAIN acc \cup valued |->
            IF k \in valued THEN sql_type(entries[k]) ELSE acc[k]]

RECURSIVE DimensionTypesFrom(_, _)
DimensionTypesFrom(acc, datums) ==
    IF datums = << >> THEN acc
    ELSE DimensionTypesFrom(
            CollectInto(acc, Head(datums).dimensions, dimension_sql_type),
            Tail(datums))

RECURSIVE MeasurementTypesFrom(_, _)
MeasurementTypesFrom(acc, datums) ==
    IF datums = << >> THEN acc
    ELSE MeasurementTypesFrom(
            CollectInto(acc, Head(datums).measurements, measurement_sql_type),
            Tail(datums))

\* A dimension type map in which the first observation of a name wins.
first_dimension_type_map(datums) ==
    DimensionTypesFrom(EmptyMap,
        [i \in 1..Len(datums) |-> datums[Len(datums) + 1 - i]])

get_dimension_type_map(datums) == DimensionTypesFrom(EmptyMap, datums)

get_measurement_type_map(datums) == MeasurementTypesFrom(EmptyMap, datums)

\* ------------------------------------------------------------ column lists

get_all_column_types(dimension_types, measurement_types) ==
    << "TIMESTAMPTZ" >> \o values(dimension_types) \o values(measurement_types)

\* A column list that names the measurements before the dimensions.
measurement_names_first(dimension_types, measurement_types) ==
    << TimeColumn >>
        \o [i \in 1..Len(keys(DOMAIN measurement_types)) |->
                clean_id(keys(DOMAIN measurement_types)[i])]
        \o [i \in 1..Len(keys(DOMAIN dimension_types)) |->
                clean_id(keys(DOMAIN dimension_types)[i])]

get_all_column_names(dimension_types, measurement_types) ==
    << TimeColumn >>
        \o [i \in 1..Len(keys(DOMAIN dimension_types)) |->
                clean_id(keys(DOMAIN dimension_types)[i])]
        \o [i \in 1..Len(keys(DOMAIN measurement_types)) |->
                clean_id(keys(DOMAIN measurement_types)[i])]

\* ------------------------------------------------------------ run_a_batch

\* sql_data_type_string: the type name given to add_column for a measurement;
\* unwrap() of an unset value panics.
sql_data_type_string(measurement) ==
    CASE measurement = "I64" -> "int8"
      [] measurement = "F64" -> "float8"
      [] measurement = "StatisticSet" -> "statistic_set"
      [] measurement = "Histogram" -> "histogram"
      [] OTHER -> "panic"

\* sql_dimension_type_string: the type name given to add_column for a dimension.
sql_dimension_type_string(dimension) ==
    CASE dimension = "String" -> "text"
      [] dimension = "Number" -> "int8"
      [] dimension = "Boolean" -> "boolean"
      [] OTHER -> "panic"

\* the_type of run_a_batch: the first datum that carries `column` as a dimension,
\* or else as a measurement, decides; "None" when no datum carries it.
RECURSIVE the_type(_, _)
the_type(datums, column) ==
    IF datums = << >> THEN "None"
    ELSE IF column \in DOMAIN Head(datums).dimensions
         THEN sql_dimension_type_string(Head(datums).dimensions[column])
    ELSE IF column \in DOMAIN Head(datums).measurements
         THEN sql_data_type_string(Head(datums).measurements[column])
    ELSE the_type(Tail(datums), column)

\* The SinkError values of the model.
NoError == [kind |-> "none", table |-> "", column |-> "", data_type |-> ""]
PostgresError(cause) ==
    [kind |-> "Postgres", table |-> "", column |-> cause, data_type |-> ""]
MissingTable(table) ==
    [kind |-> "MissingTable", table |-> table, column |-> "", data_type |-> ""]
MissingColumn(table, column, t) ==
    [kind |-> "MissingColumn", table |-> table, column |-> column, data_type |-> t]
DescribedError(table, column) ==
    [kind |-> "DescribedError", table |-> table, column |-> column, data_type |-> ""]
Panic == [kind |-> "panic", table |-> "", column |-> "", data_type |-> ""]

\* run_a_batch on SqlState::UNDEFINED_COLUMN for `column` of `table`.
undefined_column(datums, table, column) ==
    CASE the_type(datums, column) = "panic" -> Panic
      [] the_type(datums, column) = "None" -> DescribedError(table, column)
      [] OTHER -> MissingColumn(table, column, the_type(datums, column))

\* ---------------------------------------------------------- write_and_close

\* One boxed value of a row: its Rust type, the key it was read for, and the
\* unix_nanos of the datum of the row.
Cell(rust, of, datum) == [rust |-> rust, of |-> of, nanos |-> datum.unix_nanos]

\* The value pushed for one dimension column of the batch.
dimension_cell(datum, dimension_name) ==
    IF dimension_name \notin DOMAIN datum.dimensions
    THEN Cell("Option<String>", dimension_name, datum)
    ELSE CASE datum.dimensions[dimension_name] = "String" ->
                Cell("String", dimension_name, datum)
           [] datum.dimensions[dimension_name] = "Number" ->
                Cell("i64", dimension_name, datum)
           [] datum.dimensions[dimension_name] = "Boolean" ->
                Cell("bool", dimension_name, datum)
           [] OTHER -> Cell("Option<String>", dimension_name, datum)

\* The value pushed for one measurement column; the caller has indexed
\* datum.measurements[measurement_name], which panics on a missing key.
measurement_cell(datum, measurement_name) ==
    CASE datum.measurements[measurement_name] = "I64" ->
            Cell("i64", measurement_name, datum)
      [] datum.measurements[measurement_name] = "F64" ->
            Cell("f64", measurement_name, datum)
      [] datum.measurements[measurement_name] = "StatisticSet" ->
            Cell("StatisticSet", measurement_name, datum)
      [] datum.measurements[measurement_name] = "Histogram" ->
            Cell("StupidMap", measurement_name, datum)
      [] OTHER -> Cell("Option<f64>", measurement_name, datum)

\* A row that has no value for a dimension its datum does not carry.
row_of_carried_values(dimensions, measurements, datum) ==
    << Cell("SystemTime", TimeColumn, datum) >>
        \o SelectSeq([i \in 1..Len(keys(DOMAIN dimensions)) |->
                        dimension_cell(datum, keys(DOMAIN dimensions)[i])],
                     LAMBDA cell : cell.of \in DOMAIN datum.dimensions)
        \o [i \in 1..Len(keys(DOMAIN measurements)) |->
                measurement_cell(datum, keys(DOMAIN measurements)[i])]

\* The row of one datum: time, then a value per dimension key, then a value per
\* measurement key.
row_of(dimensions, measurements, datum) ==
    << Cell("SystemTime", TimeColumn, datum) >>
        \o [i \in 1..Len(keys(DOMAIN dimensions)) |->
                dimension_cell(datum, keys(DOMAIN dimensions)[i])]
        \o [i \in 1..Len(keys(DOMAIN measurements)) |->
                measurement_cell(datum, keys(DOMAIN measurements)[i])]

\* ToSql::accepts of the boxed Rust types, as BinaryCopyInWriter::write checks it
\* against the column types the writer was opened with.
accepts(rust, type) ==
    CASE rust = "SystemTime" -> type = "TIMESTAMPTZ"
      [] rust = "String" -> type = "TEXT"
      [] rust = "Option<String>" -> type = "TEXT"
      [] rust = "i64" -> type = "INT8"
      [] rust = "bool" -> type = "BOOL"
      [] rust = "f64" -> type = "FLOAT8"
      [] rust = "Option<f64>" -> type = "FLOAT8"
      [] rust = "StatisticSet" -> type = "statistic_set"
      [] rust = "StupidMap" -> type = "JSONB"
      [] OTHER -> FALSE

\* BinaryCopyInWriter::write: the row must have a value per column type, each of
\* a Rust type that accepts it; otherwise the client answers WrongType.
writer_write(types, row) ==
    /\ Len(row) = Len(types)
    /\ \A i \in 1..Len(row) : accepts(row[i].rust, types[i])

\* The loop of write_and_close over `data`: `passed` are the rows handed to the
\* writer so far. It stops with a panic at the first datum that lacks a
\* measurement key of the batch, and with WrongType at the first row the writer
\* refuses.
RECURSIVE write_rows(_, _, _, _)
write_rows(passed, dimensions, measurements, data) ==
    IF data = << >> THEN [passed |-> passed, result |-> "written"]
    ELSE IF ~ (DOMAIN measurements \subseteq DOMAIN Head(data).measurements)
         THEN [passed |-> passed, result |-> "panic"]
    ELSE IF ~ writer_write(get_all_column_types(dimensions, measurements),
                           row_of(dimensions, measurements, Head(data)))
         THEN [passed |-> Append(passed, row_of(dimensions, measurements, Head(data))),
               result |-> "WrongType"]
    ELSE write_rows(Append(passed, row_of(dimensions, measurements, Head(data))),
                    dimensions, measurements, Tail(data))

write_and_close(dimensions, measurements, data) ==
    write_rows(<< >>, dimensions, measurements, data)

\* ------------------------------------------------------------ group_metrics

\* The least metric among the datums of a non-empty batch.
FirstMetric(batch) == FirstKey({batch[i].metric : i \in DOMAIN batch})

\* sorted_by_key(|d| d.metric): a stable sort.
RECURSIVE sorted_by_key(_)
sorted_by_key(batch) ==
    IF batch = << >> THEN << >>
    ELSE SelectSeq(batch, LAMBDA d : d.metric = FirstMetric(batch))
            \o sorted_by_key(SelectSeq(batch, LAMBDA d : d.metric # FirstMetric(batch)))

\* A grouping that hands each metric its datums last first.
group_metrics_reversed(batch) ==
    [metric \in {batch[i].metric : i \in DOMAIN batch} |->
        LET group == SelectSeq(sorted_by_key(batch), LAMBDA d : d.metric = metric)
        IN  [i \in 1..Len(group) |-> group[Len(group) + 1 - i]]]

\* group_by(|d| d.metric) collected: each run of equal metrics of the sorted
\* batch becomes the entry of its metric.
group_metrics(batch) ==
    [metric \in {batch[i].metric : i \in DOMAIN batch} |->
        SelectSeq(sorted_by_key(batch), LAMBDA d : d.metric = metric)]

\* ---------------------------------------------------------------- state

VARIABLES
    queue,      \* MetricsReceiveQueue: the batches sent and not yet received
    closed,     \* every sender of the queue has been dropped
    clock,      \* datums enqueued so far; the next datum's unix_nanos is clock + 1
    cpc,        \* where consume_stuff is
    batch,      \* consume_stuff's working set
    window,     \* the working set and the queued datums when the sleep ended
    result,     \* what consume_stuff returned
    tasks,      \* the send_some task of each metric of the working set
    in_use,     \* pooled connections checked out
    pool_up,    \* the pool can reach the database
    columns,    \* the columns of each table of the database, with the type each
                \* was added with; a table that does not exist has none
    committed,  \* the rows each table holds
    arg,        \* a per-metric batch handed to run_a_batch on its own
    ret,        \* what run_a_batch computed for arg
    startup,    \* where run_server is, the connector it built and the
                \* composite types the database has
    crowd       \* how many further send_some tasks of the working set are at
                \* each place of the attempt loop

vars == << queue, closed, clock, cpc, batch, window, result, tasks, in_use,
           pool_up, columns, committed, arg, ret, startup, crowd >>

sink_without_startup == << queue, closed, clock, cpc, batch, window, result,
                           tasks, in_use, pool_up, columns, committed >>

sink_vars == << queue, closed, clock, cpc, batch, window, result, tasks, in_use,
                pool_up, columns, committed, startup, crowd >>

\* The tables of the metrics: clean_id(metric).
Tables == {clean_id(metric) : metric \in Metrics}

\* Whether the database has table t: every table has its time column.
table_exists(cols, t) == cols[t] # EmptyMap

\* A map of one entry.
One(name, value) == [k \in {name} |-> value]

\* The datums the producers of the sink send: those of metric "m" carry nothing
\* but their time, one dimension (a or A), one measurement v (F64 or I64), or
\* dimension a and measurement v; those of the other metrics carry their time.
SinkDatums ==
    [metric : {"m"},
     dimensions : {EmptyMap, One("a", "String"), One("A", "String")},
     measurements : {EmptyMap}]
    \cup
    [metric : {"m"},
     dimensions : {EmptyMap},
     measurements : {One("v", "F64"), One("v", "I64")}]
    \cup
    [metric : {"m"},
     dimensions : {One("a", "String")},
     measurements : {One("v", "F64")}]
    \cup
    [metric : Metrics \ {"m"}, dimensions : {EmptyMap}, measurements : {EmptyMap}]

\* The batches of `n` datums stamped now + 1 .. now + n.
BatchesAt(now, n) ==
    {[i \in 1..n |-> [metric |-> shape[i].metric,
                      unix_nanos |-> now + i,
                      dimensions |-> shape[i].dimensions,
                      measurements |-> shape[i].measurements]] :
        shape \in [1..n -> SinkDatums]}

\* The database is empty when the sink starts; a later working set meets the
\* tables and columns the earlier ones left.

\* A task slot with no task in it.
NoTask ==
    [pc |-> "none", datums |-> << >>, error |-> NoError, held |-> 0,
     copies |-> 0, written |-> 0, undefined_table |-> 0,
     create_table |-> 0, fresh |-> FALSE, names |-> << >>, types |-> << >>,
     passed |-> << >>, failed_checkouts |-> 0]

\* How a send_some task ends: it returns Ok(()) with the rows committed or with
\* the batch dropped, it returns Err, or it panics.
Finished == {"committed", "dropped", "Err", "panicked"}

\* The sleep of the current round has not ended.
NoWindow == [slept |-> FALSE, received |-> << >>, queued |-> << >>]

\* The composite types new_connection gets or creates.
CompositeTypes == {"statistic_set", "histogram"}

\* run_server has built the sender and spawned consume_stuff.
Started ==
    [pc |-> "consume_stuff", connector |-> TRUE, types |-> CompositeTypes,
     error |-> "none"]

\* No further task.
NoCrowd ==
    [use_connection |-> 0, run_a_batch |-> 0, use_connection_again |-> 0,
     handle_error |-> 0, finished |-> 0, fixes |-> 0]

SinkInit ==
    /\ queue = << >>
    /\ closed = FALSE
    /\ clock = 0
    /\ cpc = "recv"
    /\ batch = << >>
    /\ window = NoWindow
    /\ result = "running"
    /\ tasks = [metric \in Metrics |-> NoTask]
    /\ in_use = 0
    /\ pool_up = TRUE
    /\ columns = [t \in Tables |-> EmptyMap]
    /\ committed = [t \in Tables |-> << >>]

\* run_a_batch has not been called on arg.
NoRet ==
    [called |-> FALSE, names |-> << >>, types |-> << >>, passed |-> << >>,
     rows |-> << >>, wrote |-> FALSE, error |-> NoError]

Init ==
    /\ SinkInit
    /\ arg = << >>
    /\ ret = NoRet
    /\ startup = Started
    /\ crowd = NoCrowd

\* ------------------------------------------------------------- producers

\* A gRPC handler sends one received batch.
Enqueue ==
    /\ ~ closed
    /\ \E n \in 1..MaxBatchLen :
        /\ clock + n <= MaxDatums
        /\ \E b \in BatchesAt(clock, n) : queue' = Append(queue, b)
        /\ clock' = clock + n
    /\ UNCHANGED << startup, crowd, closed, cpc, batch, window, result, tasks, in_use,
                    pool_up, columns, committed, arg, ret >>

\* The last sender is dropped.
Close ==
    /\ ~ closed
    /\ closed' = TRUE
    /\ UNCHANGED << startup, crowd, queue, clock, cpc, batch, window, result, tasks, in_use,
                    pool_up, columns, committed, arg, ret >>

\* The database goes away: the pool's checkouts fail until it is back. An outage
\* shows only in a checkout, so it begins when a task is about to check out.
PoolGoesDown ==
    /\ pool_up
    /\ \E metric \in Metrics :
        tasks[metric].pc \in {"use_connection", "use_connection_again"}
    /\ pool_up' = FALSE
    /\ UNCHANGED << startup, crowd, queue, closed, clock, cpc, batch, window, result, tasks,
                    in_use, columns, committed, arg, ret >>

PoolComesBack ==
    /\ ~ pool_up
    /\ pool_up' = TRUE
    /\ UNCHANGED << startup, crowd, queue, closed, clock, cpc, batch, window, result, tasks,
                    in_use, columns, committed, arg, ret >>

\* --------------------------------------------------------- consume_stuff

\* self.rx.recv().await answers Some(batch).
Recv ==
    /\ cpc = "recv"
    /\ queue # << >>
    /\ batch' = Head(queue)
    /\ queue' = Tail(queue)
    /\ window' = NoWindow
    /\ cpc' = "sleep"
    /\ UNCHANGED << startup, crowd, closed, clock, result, tasks, in_use, pool_up, columns, committed, arg, ret >>

\* self.rx.recv().await answers None: the queue is closed and empty.
RecvNone ==
    /\ cpc = "recv"
    /\ queue = << >>
    /\ closed
    /\ cpc' = "ended"
    /\ result' = "Ok(1)"
    /\ UNCHANGED << startup, crowd, queue, closed, clock, batch, window, tasks, in_use,
                    pool_up, columns, committed, arg, ret >>

RECURSIVE Flatten(_)
Flatten(batches) ==
    IF batches = << >> THEN << >> ELSE Head(batches) \o Flatten(Tail(batches))

\* tokio::time::sleep(5 s) is over.
Sleep ==
    /\ cpc = "sleep"
    /\ cpc' = "try_recv"
    /\ window' = [slept |-> TRUE, received |-> batch, queued |-> Flatten(queue)]
    /\ UNCHANGED << startup, crowd, queue, closed, clock, batch, result, tasks, in_use,
                    pool_up, columns, committed, arg, ret >>

\* A consumer that receives the queued batches and leaves them out of the
\* working set.
append_extras_lost(working, extras) == working

\* The working set after self.rx.rx.try_recv() answered Ok(extras).
append_extras(working, extras) == working \o extras

\* One self.rx.rx.try_recv() of the inner loop that answers Ok(extras).
TryRecv ==
    /\ cpc = "try_recv"
    /\ queue # << >>
    /\ batch' = append_extras(batch, Head(queue))
    /\ queue' = Tail(queue)
    /\ UNCHANGED << startup, crowd, closed, clock, cpc, window, result, tasks, in_use,
                    pool_up, columns, committed, arg, ret >>

\* The task spawn_local starts for one metric.
spawned(metric, datums) ==
    [NoTask EXCEPT !.pc = "use_connection", !.datums = datums,
                   !.fresh = ~ table_exists(columns, clean_id(metric))]

\* try_recv() answers Err: the inner loop ends, the working set is grouped and a
\* send_some task is spawned for each metric.
Spawn ==
    /\ cpc = "try_recv"
    /\ queue = << >>
    /\ tasks' = [metric \in Metrics |->
                    IF metric \in DOMAIN group_metrics(batch)
                    THEN spawned(metric, group_metrics(batch)[metric])
                    ELSE NoTask]
    /\ cpc' = "await"
    /\ UNCHANGED << startup, crowd, queue, closed, clock, batch, window, result, in_use,
                    pool_up, columns, committed, arg, ret >>

\* A LocalSet that is done as soon as one of its tasks is.
one_task_done == \E metric \in Metrics : tasks[metric].pc \in Finished \cup {"none"}

\* batch_tasks.await: the LocalSet is done when each of its tasks is.
local_set_done == \A metric \in Metrics : tasks[metric].pc \in Finished \cup {"none"}

Await ==
    /\ cpc = "await"
    /\ local_set_done
    /\ cpc' = "recv"
    /\ tasks' = [metric \in Metrics |-> NoTask]
    /\ batch' = << >>
    /\ window' = NoWindow
    /\ UNCHANGED << startup, crowd, queue, closed, clock, result, in_use, pool_up, columns, committed, arg, ret >>

\* ---------------------------------------------------------------- database

\* What the server may answer to "copy table (names) from stdin with binary"
\* when the table exists or not and has the columns `has`: UNDEFINED_TABLE for a
\* table it does not have; otherwise it resolves the names in order and answers
\* UNDEFINED_COLUMN for the first the table lacks or an error for the first
\* listed twice, and a sink when there is neither. A refusal for privilege or a
\* broken transport can meet any statement.
copy_in_answers(exists, has, names) ==
    LET bad == {i \in DOMAIN names :
                    \/ names[i] \notin has
                    \/ \E j \in 1..(i - 1) : names[j] = names[i]}
        first == CHOOSE i \in bad : \A o \in bad : i <= o
    IN  {[state |-> s, column |-> ""] : s \in {"INSUFFICIENT_PRIVILEGE", "transport"}}
        \cup
        (IF ~ exists THEN {[state |-> "UNDEFINED_TABLE", column |-> ""]}
         ELSE IF bad = {} THEN {[state |-> "sink", column |-> ""]}
         ELSE IF names[first] \notin has
         THEN {[state |-> "UNDEFINED_COLUMN", column |-> names[first]]}
         ELSE {[state |-> "other", column |-> ""]})

\* The answer of the sink's database.
copy_in(table, names) ==
    copy_in_answers(table_exists(columns, table), DOMAIN columns[table], names)

\* What the server may answer when the rows are sent and the COPY is closed.
FinishOutcomes == {"committed", "other"}

\* ddl::create_table: CREATE TABLE IF NOT EXISTS name (time TIMESTAMPTZ NOT NULL).
create_table(cols, name) ==
    IF table_exists(cols, clean_id(name)) THEN cols
    ELSE [cols EXCEPT ![clean_id(name)] = [c \in {TimeColumn} |-> "timestamptz"]]

\* ddl::add_column: ALTER TABLE table ADD COLUMN IF NOT EXISTS column data_type.
add_column(cols, table, column, data_type) ==
    IF clean_id(column) \in DOMAIN cols[clean_id(table)] THEN cols
    ELSE [cols EXCEPT ![clean_id(table)] =
            [c \in DOMAIN cols[clean_id(table)] \cup {clean_id(column)} |->
                IF c = clean_id(column) THEN data_type
                ELSE cols[clean_id(table)][c]]]

\* ------------------------------------------------------------ run_a_batch

\* run_a_batch for one metric's datums, given the server's answer to the COPY
\* statement and, when rows are written, to its close: the error returned (NoError
\* for Ok(rows)), the column lists, the rows passed to the writer and the rows
\* the table gained.
run_a_batch(metric, datums, open, finish) ==
    LET dimension_types == get_dimension_type_map(datums)
        measurement_types == get_measurement_type_map(datums)
        all_column_types == get_all_column_types(dimension_types, measurement_types)
        all_column_names == get_all_column_names(dimension_types, measurement_types)
        w == write_and_close(dimension_types, measurement_types, datums)
        opened == [names |-> all_column_names, types |-> all_column_types,
                   passed |-> << >>, rows |-> << >>, wrote |-> FALSE,
                   error |-> NoError]
    IN  CASE open.state = "UNDEFINED_COLUMN" ->
                [opened EXCEPT !.error =
                    undefined_column(datums, clean_id(metric), open.column)]
          [] open.state = "UNDEFINED_TABLE" ->
                [opened EXCEPT !.error = MissingTable(clean_id(metric))]
          [] open.state \in {"INSUFFICIENT_PRIVILEGE", "other", "transport"} ->
                [opened EXCEPT !.error = PostgresError(open.state)]
          [] OTHER ->
                CASE w.result = "panic" ->
                        [opened EXCEPT !.passed = w.passed, !.wrote = TRUE,
                                       !.error = Panic]
                  [] w.result = "WrongType" ->
                        [opened EXCEPT !.passed = w.passed, !.wrote = TRUE,
                                       !.error = PostgresError("WrongType")]
                  [] finish # "committed" ->
                        [opened EXCEPT !.passed = w.passed, !.wrote = TRUE,
                                       !.error = PostgresError(finish)]
                  [] OTHER ->
                        [opened EXCEPT !.passed = w.passed, !.wrote = TRUE,
                                       !.rows = w.passed]

\* ---------------------------------------- handle_error_and_should_it_retry

\* A classifier that asks for another attempt after any database error.
retry_after_any_error(e, ddl) ==
    CASE e.kind = "Postgres" -> [ddl |-> "none", retry |-> "true"]
      [] e.kind = "MissingColumn" ->
            [ddl |-> "add_column", retry |-> IF ddl = "ok" THEN "true" ELSE "Err"]
      [] e.kind = "MissingTable" ->
            [ddl |-> "create_table", retry |-> IF ddl = "ok" THEN "true" ELSE "Err"]
      [] OTHER -> [ddl |-> "none", retry |-> "panic"]

\* A classifier that asks for another attempt after the writer refused a row.
retry_after_wrong_type(e, ddl) ==
    CASE e.kind = "Postgres" ->
            [ddl |-> "none",
             retry |-> IF e.column = "WrongType" THEN "true" ELSE "false"]
      [] e.kind = "MissingColumn" ->
            [ddl |-> "add_column", retry |-> IF ddl = "ok" THEN "true" ELSE "Err"]
      [] e.kind = "MissingTable" ->
            [ddl |-> "create_table", retry |-> IF ddl = "ok" THEN "true" ELSE "Err"]
      [] OTHER -> [ddl |-> "none", retry |-> "panic"]

\* A classifier that asks for another attempt whether its DDL statement
\* succeeded or not.
retry_after_failed_ddl(e, ddl) ==
    CASE e.kind = "Postgres" -> [ddl |-> "none", retry |-> "false"]
      [] e.kind = "MissingColumn" -> [ddl |-> "add_column", retry |-> "true"]
      [] e.kind = "MissingTable" -> [ddl |-> "create_table", retry |-> "true"]
      [] OTHER -> [ddl |-> "none", retry |-> "panic"]

\* The classifier's answer for error e when its DDL statement, if it issues one,
\* ends as `ddl` ("ok" or "fails"): the statement issued and should_retry
\* ("true", "false", "Err" for a DDL error passed on with `?`, "panic" for todo!()).
handle_error_and_should_it_retry(e, ddl) ==
    CASE e.kind = "Postgres" -> [ddl |-> "none", retry |-> "false"]
      [] e.kind = "MissingColumn" ->
            [ddl |-> "add_column", retry |-> IF ddl = "ok" THEN "true" ELSE "Err"]
      [] e.kind = "MissingTable" ->
            [ddl |-> "create_table", retry |-> IF ddl = "ok" THEN "true" ELSE "Err"]
      [] OTHER -> [ddl |-> "none", retry |-> "panic"]

\* ---------------------------------------------------------------- send_some

\* A counter of the model, which stops counting at MaxCopies.
Inc(n) == IF n < MaxCopies THEN n + 1 ELSE n

\* A checkout that waits until no other task holds a connection.
UseConnectionAlone(metric) ==
    /\ tasks[metric].pc = "use_connection"
    /\ pool_up
    /\ in_use = 0
    /\ in_use' = in_use + 1
    /\ tasks' = [tasks EXCEPT ![metric] =
                    [@ EXCEPT !.pc = "run_a_batch", !.held = 1,
                              !.failed_checkouts = 0]]
    /\ UNCHANGED << startup, crowd, queue, closed, clock, cpc, batch, window, result, pool_up,
                    columns, committed, arg, ret >>

\* connector.use_connection() at the top of the loop answers Ok.
UseConnection(metric) ==
    /\ tasks[metric].pc = "use_connection"
    /\ pool_up
    /\ in_use < max_conns
    /\ in_use' = in_use + 1
    /\ tasks' = [tasks EXCEPT ![metric] =
                    [@ EXCEPT !.pc = "run_a_batch", !.held = 1,
                              !.failed_checkouts = 0]]
    /\ UNCHANGED << startup, crowd, queue, closed, clock, cpc, batch, window, result, pool_up,
                    columns, committed, arg, ret >>

\* The task after use_connection() at the top of the loop answered Err: the
\* error is logged and the loop continues with try_again still true. The
\* failures in a row are counted 1, 2, 1, 2, ...
checkout_failed(task) ==
    [task EXCEPT !.pc = "use_connection",
                 !.failed_checkouts = IF @ = 1 THEN 2 ELSE 1]

UseConnectionFails(metric) ==
    /\ tasks[metric].pc = "use_connection"
    /\ ~ pool_up
    /\ tasks' = [tasks EXCEPT ![metric] = checkout_failed(@)]
    /\ UNCHANGED << startup, crowd, queue, closed, clock, cpc, batch, window, result, in_use,
                    pool_up, columns, committed, arg, ret >>

\* A task that keeps the COPY connection while it goes on to the classifier.
after_run_a_batch_holding(task, r) ==
    [task EXCEPT
        !.pc = CASE r.error.kind = "none" -> "committed"
                 [] r.error.kind = "panic" -> "panicked"
                 [] OTHER -> "use_connection_again",
        !.held = IF r.error.kind \in {"none", "panic"} THEN 0 ELSE 1,
        !.error = r.error,
        !.copies = Inc(@),
        !.written = IF r.wrote THEN Inc(@) ELSE @,
        !.undefined_table = IF r.error.kind = "MissingTable" THEN Inc(@) ELSE @,
        !.names = r.names,
        !.types = r.types,
        !.passed = r.passed]

\* The task after run_a_batch returned r: Ok ends the loop; Err drops the
\* connection and goes on to check one out for the classifier; a panic ends
\* the task. The connection is released in each case.
after_run_a_batch(task, r) ==
    [task EXCEPT
        !.pc = CASE r.error.kind = "none" -> "committed"
                 [] r.error.kind = "panic" -> "panicked"
                 [] OTHER -> "use_connection_again",
        !.held = 0,
        !.error = r.error,
        !.copies = Inc(@),
        !.written = IF r.wrote THEN Inc(@) ELSE @,
        !.undefined_table = IF r.error.kind = "MissingTable" THEN Inc(@) ELSE @,
        !.names = r.names,
        !.types = r.types,
        !.passed = r.passed]

\* PostgresSender::run_a_batch(&connection, ...).await and the match on it.
RunABatch(metric) ==
    /\ tasks[metric].pc = "run_a_batch"
    /\ \E open \in copy_in(clean_id(metric),
                           get_all_column_names(
                               get_dimension_type_map(tasks[metric].datums),
                               get_measurement_type_map(tasks[metric].datums))),
          finish \in FinishOutcomes :
            LET r == run_a_batch(metric, tasks[metric].datums, open, finish)
            IN  /\ tasks' = [tasks EXCEPT ![metric] = after_run_a_batch(@, r)]
                /\ committed' = [committed EXCEPT ![clean_id(metric)] = @ \o r.rows]
    /\ in_use' = in_use - 1
    /\ UNCHANGED << startup, crowd, queue, closed, clock, cpc, batch, window, result, pool_up,
                    columns, arg, ret >>

\* connector.use_connection().await? in the Err arm answers Ok.
UseConnectionAgain(metric) ==
    /\ tasks[metric].pc = "use_connection_again"
    /\ pool_up
    /\ in_use < max_conns
    /\ in_use' = in_use + 1
    /\ tasks' = [tasks EXCEPT ![metric] =
                    [@ EXCEPT !.pc = "handle_error", !.held = 1]]
    /\ UNCHANGED << startup, crowd, queue, closed, clock, cpc, batch, window, result, pool_up,
                    columns, committed, arg, ret >>

\* connector.use_connection().await? in the Err arm answers Err: send_some
\* returns it.
UseConnectionAgainFails(metric) ==
    /\ tasks[metric].pc = "use_connection_again"
    /\ ~ pool_up
    /\ tasks' = [tasks EXCEPT ![metric] = [@ EXCEPT !.pc = "Err"]]
    /\ UNCHANGED << startup, crowd, queue, closed, clock, cpc, batch, window, result, in_use,
                    pool_up, columns, committed, arg, ret >>

\* The task after the classifier answered h: retry loops, false and a logged
\* DDL failure end the loop, todo!() panics. The connection is released.
after_handle_error(task, h) ==
    [task EXCEPT
        !.pc = CASE h.retry = "true" -> "use_connection"
                 [] h.retry = "panic" -> "panicked"
                 [] OTHER -> "dropped",
        !.held = 0,
        !.error = NoError,
        !.create_table = IF h.ddl = "create_table" THEN Inc(@) ELSE @]

\* handle_error_and_should_it_retry(&connection, e).await and the match on it.
HandleError(metric) ==
    /\ tasks[metric].pc = "handle_error"
    /\ \E ddl \in {"ok", "fails"} :
        LET e == tasks[metric].error
            h == handle_error_and_should_it_retry(e, ddl)
        IN  /\ tasks' = [tasks EXCEPT ![metric] = after_handle_error(@, h)]
            /\ columns' =
                CASE h.ddl = "create_table" /\ ddl = "ok" ->
                        create_table(columns, e.table)
                  [] h.ddl = "add_column" /\ ddl = "ok" ->
                        add_column(columns, e.table, e.column, e.data_type)
                  [] OTHER -> columns
    /\ in_use' = in_use - 1
    /\ UNCHANGED << startup, crowd, queue, closed, clock, cpc, batch, window, result, pool_up,
                    committed, arg, ret >>

\* ------------------------------------------------------------ specification

Next ==
    \/ Enqueue
    \/ Close
    \/ PoolGoesDown
    \/ PoolComesBack
    \/ Recv
    \/ RecvNone
    \/ Sleep
    \/ TryRecv
    \/ Spawn
    \/ Await
    \/ \E metric \in Metrics : UseConnection(metric)
    \/ \E metric \in Metrics : UseConnectionFails(metric)
    \/ \E metric \in Metrics : RunABatch(metric)
    \/ \E metric \in Metrics : UseConnectionAgain(metric)
    \/ \E metric \in Metrics : UseConnectionAgainFails(metric)
    \/ \E metric \in Metrics : HandleError(metric)

Spec == Init /\ [][Next]_vars

\* The runtime polls every task that can run, the pool and the database answer
\* every request; nothing brings a database that is away back, and no producer
\* has to send or to close.
ConsumerNext == Recv \/ RecvNone \/ Sleep \/ TryRecv \/ Spawn \/ Await

TaskNext(metric) ==
    \/ UseConnection(metric)
    \/ UseConnectionFails(metric)
    \/ RunABatch(metric)
    \/ UseConnectionAgain(metric)
    \/ UseConnectionAgainFails(metric)
    \/ HandleError(metric)

SpecFair ==
    /\ Spec
    /\ WF_vars(ConsumerNext)
    /\ \A metric \in Metrics : WF_vars(TaskNext(metric))

\* ------------------------------------------------- run_a_batch on its own

\* The datums of one metric's batch: dimensions A and a, measurements a and v.
ArgDimensions ==
    {d \in Maps(DimNames, DimensionValues) : "A" \in DOMAIN d => d["A"] = "String"}
ArgMeasurements ==
    {m \in Maps(MeasNames, {"I64", "F64", "Histogram", "None"}) :
        /\ "a" \in DOMAIN m => m["a"] = "I64"
        /\ "v" \in DOMAIN m => m["v"] # "I64"}

InitBatch ==
    /\ SinkInit
    /\ arg = << >>
    /\ ret = NoRet
    /\ startup = Started
    /\ crowd = NoCrowd

\* The batch gains a datum.
Push ==
    /\ Len(arg) < MaxArgLen
    /\ \E dimensions \in ArgDimensions, measurements \in ArgMeasurements :
        arg' = Append(arg, [metric |-> "m", unix_nanos |-> Len(arg) + 1,
                            dimensions |-> dimensions,
                            measurements |-> measurements])
    /\ ret' = NoRet
    /\ UNCHANGED sink_vars

\* run_a_batch is called on the batch, against a table that has no column, the
\* time column, or every column of the batch.
Call ==
    /\ arg # << >>
    /\ ~ ret.called
    /\ LET names == get_all_column_names(get_dimension_type_map(arg),
                                         get_measurement_type_map(arg))
       IN  \E has \in {{}, {TimeColumn}, {names[i] : i \in DOMAIN names}},
              finish \in FinishOutcomes :
                \E open \in copy_in_answers(TRUE, has, names) :
                    ret' = [called |-> TRUE] @@ run_a_batch("m", arg, open, finish)
    /\ UNCHANGED << startup, crowd, arg, queue, closed, clock, cpc, batch, window, result, tasks,
                    in_use, pool_up, columns, committed >>

NextBatch == Push \/ Call

SpecBatch == InitBatch /\ [][NextBatch]_vars

\* ------------------------------------------------------------- run_server

\* run_server is entered: nothing is built, and the database has any of the
\* composite types from an earlier run.
InitStartup ==
    /\ SinkInit
    /\ arg = << >>
    /\ ret = NoRet
    /\ \E types \in SUBSET CompositeTypes :
        startup = [pc |-> "new_connector", connector |-> FALSE,
                   types |-> types, error |-> "none"]
    /\ crowd = NoCrowd

\* PostgresConnector::new(connection_string, max_conns).await?
PostgresConnectorNew ==
    /\ startup.pc = "new_connector"
    /\ \E ok \in BOOLEAN :
        startup' = IF ok
                   THEN [startup EXCEPT !.pc = "statistic_set_type",
                                        !.connector = TRUE]
                   ELSE [startup EXCEPT !.pc = "Err", !.error = "connector"]
    /\ UNCHANGED << sink_without_startup, arg, ret, crowd >>

\* get_or_create_statistic_set_type(&mut connector).await?
GetOrCreateStatisticSetType ==
    /\ startup.pc = "statistic_set_type"
    /\ \E ok \in BOOLEAN :
        startup' = IF ok
                   THEN [startup EXCEPT !.pc = "histogram_type",
                                        !.types = @ \cup {"statistic_set"}]
                   ELSE [startup EXCEPT !.pc = "Err", !.error = "statistic_set"]
    /\ UNCHANGED << sink_without_startup, arg, ret, crowd >>

\* A step that takes the sender as built although the histogram type could not
\* be got or created.
GetOrCreateHistogramTypeUnchecked ==
    /\ startup.pc = "histogram_type"
    /\ \E ok \in BOOLEAN :
        startup' = IF ok
                   THEN [startup EXCEPT !.pc = "Ok",
                                        !.types = @ \cup {"histogram"}]
                   ELSE [startup EXCEPT !.pc = "Ok", !.error = "histogram"]
    /\ UNCHANGED << sink_without_startup, arg, ret, crowd >>

\* get_or_create_histogram_type(&mut connector).await? and, after it,
\* Ok(PostgresSender { .. }).
GetOrCreateHistogramType ==
    /\ startup.pc = "histogram_type"
    /\ \E ok \in BOOLEAN :
        startup' = IF ok
                   THEN [startup EXCEPT !.pc = "Ok",
                                        !.types = @ \cup {"histogram"}]
                   ELSE [startup EXCEPT !.pc = "Err", !.error = "histogram"]
    /\ UNCHANGED << sink_without_startup, arg, ret, crowd >>

\* run_server on Ok(sender): tokio::spawn of consume_stuff, then the server
\* threads.
SpawnConsumer ==
    /\ startup.pc = "Ok"
    /\ startup' = [startup EXCEPT !.pc = "consume_stuff"]
    /\ UNCHANGED << sink_without_startup, arg, ret, crowd >>

\* run_server on Err(e): the error is logged and the process exits.
Exit ==
    /\ startup.pc = "Err"
    /\ startup' = [startup EXCEPT !.pc = "exit"]
    /\ UNCHANGED << sink_without_startup, arg, ret, crowd >>

\* The consumer, its tasks and the producers exist once they are spawned.
NextStartup ==
    \/ PostgresConnectorNew
    \/ GetOrCreateStatisticSetType
    \/ GetOrCreateHistogramType
    \/ SpawnConsumer
    \/ Exit
    \/ (startup.pc = "consume_stuff" /\ Next)

SpecStartup == InitStartup /\ [][NextStartup]_vars

\* ------------------------------------------- a working set wider than the pool

\* The further tasks of the working set: with the task of metric "m" they are
\* one more than the pool has connections.
CrowdSize == max_conns

\* consume_stuff has spawned the task of metric "m" for one datum with a
\* dimension and a measurement, which is followed through send_some as in
\* Spec, and CrowdSize tasks of other metrics, each with a table
\* of its own, of which only the place in send_some is kept. The pool is up and
\* stays up.
InitPool ==
    /\ queue = << >>
    /\ closed = FALSE
    /\ clock = 1
    /\ cpc = "await"
    /\ window = NoWindow
    /\ result = "running"
    /\ in_use = 0
    /\ pool_up = TRUE
    /\ columns = [t \in Tables |-> EmptyMap]
    /\ committed = [t \in Tables |-> << >>]
    /\ \E datums \in {b \in BatchesAt(0, 1) :
                            /\ b[1].metric = "m"
                            /\ b[1].dimensions # EmptyMap
                            /\ b[1].measurements # EmptyMap} :
        /\ batch = datums
        /\ tasks = [metric \in Metrics |->
                        IF metric = "m" THEN spawned("m", datums) ELSE NoTask]
    /\ arg = << >>
    /\ ret = NoRet
    /\ startup = Started
    /\ crowd = [NoCrowd EXCEPT !.use_connection = CrowdSize]

\* The variables a step of a further task leaves alone.
crowd_unchanged ==
    << queue, closed, clock, cpc, batch, window, result, tasks, pool_up,
       columns, committed, arg, ret, startup >>

\* connector.use_connection() at the top of the loop answers Ok for a further
\* task: the checkout suspends while no connection is free.
CrowdUseConnection ==
    /\ crowd.use_connection > 0
    /\ pool_up
    /\ in_use < max_conns
    /\ in_use' = in_use + 1
    /\ crowd' = [crowd EXCEPT !.use_connection = @ - 1, !.run_a_batch = @ + 1]
    /\ UNCHANGED crowd_unchanged

\* A further task that keeps the COPY connection while it goes on to check
\* out the connection of the classifier.
CrowdRunABatchHolding ==
    /\ crowd.run_a_batch > 0
    /\ \E ok \in BOOLEAN :
        /\ crowd' = IF ok
                    THEN [crowd EXCEPT !.run_a_batch = @ - 1, !.finished = @ + 1]
                    ELSE [crowd EXCEPT !.run_a_batch = @ - 1,
                                       !.use_connection_again = @ + 1]
        /\ in_use' = IF ok THEN in_use - 1 ELSE in_use
    /\ UNCHANGED crowd_unchanged

\* run_a_batch of a further task answers: Ok ends the loop, Err drops the
\* connection and goes on to check one out for the classifier.
CrowdRunABatch ==
    /\ crowd.run_a_batch > 0
    /\ \E ok \in BOOLEAN :
        crowd' = IF ok
                 THEN [crowd EXCEPT !.run_a_batch = @ - 1, !.finished = @ + 1]
                 ELSE [crowd EXCEPT !.run_a_batch = @ - 1,
                                    !.use_connection_again = @ + 1]
    /\ in_use' = in_use - 1
    /\ UNCHANGED crowd_unchanged

\* connector.use_connection().await? in the Err arm answers Ok for a further
\* task.
CrowdUseConnectionAgain ==
    /\ crowd.use_connection_again > 0
    /\ pool_up
    /\ in_use < max_conns
    /\ in_use' = in_use + 1
    /\ crowd' = [crowd EXCEPT !.use_connection_again = @ - 1,
                              !.handle_error = @ + 1]
    /\ UNCHANGED crowd_unchanged

\* The classifier of a further task answers: true after a schema fix, of which
\* the crowd's tables need MaxCrowdFixes, or false. The connection is released.
CrowdHandleError ==
    /\ crowd.handle_error > 0
    /\ \E retry \in {r \in BOOLEAN : r => crowd.fixes < MaxCrowdFixes} :
        crowd' = IF retry
                 THEN [crowd EXCEPT !.handle_error = @ - 1,
                                    !.use_connection = @ + 1,
                                    !.fixes = @ + 1]
                 ELSE [crowd EXCEPT !.handle_error = @ - 1, !.finished = @ + 1]
    /\ in_use' = in_use - 1
    /\ UNCHANGED crowd_unchanged

NextPool ==
    \/ UseConnection("m")
    \/ RunABatch("m")
    \/ UseConnectionAgain("m")
    \/ HandleError("m")
    \/ CrowdUseConnection
    \/ CrowdRunABatch
    \/ CrowdUseConnectionAgain
    \/ CrowdHandleError

SpecPool == InitPool /\ [][NextPool]_vars

\* ------------------------------------------------------- the attempt loop

\* A send_some task that has been spawned and has not ended.
Running(metric) == tasks[metric].pc \notin Finished \cup {"none"}

\* The checkout at the top of the loop has just failed for the task.
CheckoutJustFailed(metric) ==
    /\ tasks[metric].pc = "use_connection"
    /\ tasks'[metric].failed_checkouts # tasks[metric].failed_checkouts
    /\ tasks'[metric].failed_checkouts # 0

\* C1: every send_some task ends: whatever the schema it starts from and
\* whatever the pool and the database answer, a task that is spawned comes to
\* return or to panic, with its batch written or dropped; no task loops forever.
C1_AttemptLoopTerminates ==
    \A metric \in Metrics : Running(metric) ~> (tasks[metric].pc \in Finished)

\* C6: when the checkout at the top of the loop fails, the task ends with its
\* batch dropped.
C6_FailedCheckoutDropsBatch ==
    [][\A metric \in Metrics :
        CheckoutJustFailed(metric) => tasks'[metric].pc \in Finished]_vars

\* The rows of table t that carry the time of datum d.
RowsOf(t, d) == {i \in DOMAIN committed[t] : committed[t][i][1].nanos = d.unix_nanos}

\* The task starts an attempt in this step after an earlier one.
StartsAnotherAttempt(metric) ==
    /\ Running(metric)
    /\ tasks'[metric] # tasks[metric]
    /\ tasks'[metric].pc = "use_connection"

\* The task has passed rows to a COPY writer in one attempt at most, and the
\* table of its metric holds one row at most of each of its datums.
WrittenAtMostOnce(metric) ==
    /\ tasks[metric].written <= 1
    /\ \A i \in DOMAIN tasks[metric].datums :
            Cardinality(RowsOf(clean_id(metric), tasks[metric].datums[i])) <= 1

\* C2: no datum is written to the database twice. A task passes rows to a COPY
\* writer in at most one attempt; it starts another attempt only when no
\* attempt of it has passed a row, and after a COPY only when the statement was
\* refused for a missing table or a missing column; no table holds two rows of
\* one datum.
C2_NoDatumWrittenTwice ==
    [][\A metric \in Metrics :
        /\ WrittenAtMostOnce(metric)'
        /\ StartsAnotherAttempt(metric) =>
                /\ tasks[metric].written = 0
                /\ tasks[metric].passed = << >>
                /\ tasks[metric].pc = "handle_error" =>
                        tasks[metric].error.kind \in {"MissingTable", "MissingColumn"}
      ]_vars

\* A task has committed its rows in its second or a later attempt.
C2_Witness ==
    \E metric \in Metrics :
        /\ tasks[metric].pc = "committed"
        /\ tasks[metric].copies >= 2
        /\ tasks[metric].written = 1
        /\ \A i \in DOMAIN tasks[metric].datums :
                Cardinality(RowsOf(clean_id(metric), tasks[metric].datums[i])) = 1

\* The names of the dimensions and measurements of a batch.
NamesOf(datums) ==
    UNION {DOMAIN datums[i].dimensions \cup DOMAIN datums[i].measurements :
                i \in DOMAIN datums}

\* C3: a task that ends without dropping its batch for a database error leaves
\* the table of its metric with a column for every dimension and measurement
\* name of the batch, and every datum of the batch as exactly one row.
C3_SchemaSelfHeals ==
    \A metric \in Metrics :
        tasks[metric].pc \in {"committed", "panicked"} =>
            /\ table_exists(columns, clean_id(metric))
            /\ \A name \in NamesOf(tasks[metric].datums) :
                    clean_id(name) \in DOMAIN columns[clean_id(metric)]
            /\ \A i \in DOMAIN tasks[metric].datums :
                    Cardinality(RowsOf(clean_id(metric), tasks[metric].datums[i])) = 1

\* The columns a batch adds to a table that has its time column only.
ColumnsToAdd(datums) == {clean_id(name) : name \in NamesOf(datums)}

\* C4 as stated: a batch that meets no table is refused once for the missing
\* table, creates it once and is copied by its second statement; there is no
\* third COPY.
C4_TwoAttempts ==
    \A metric \in Metrics :
        tasks[metric].fresh =>
            /\ tasks[metric].copies <= 2
            /\ tasks[metric].pc = "committed" =>
                    /\ tasks[metric].undefined_table = 1
                    /\ tasks[metric].create_table = 1
                    /\ tasks[metric].copies = 2

\* C4: a batch that meets no table is refused at most once for the missing
\* table and creates it at most once; the table is created with its time column
\* only, so each other column of the batch takes one more refused COPY: the
\* batch is copied by statement 2 + k, k the number of its columns besides time,
\* and no statement follows that one.
C4_FreshTableConverges ==
    \A metric \in Metrics :
        tasks[metric].fresh =>
            /\ tasks[metric].undefined_table <= 1
            /\ tasks[metric].create_table <= 1
            /\ tasks[metric].copies <= 2 + Cardinality(ColumnsToAdd(tasks[metric].datums))
            /\ tasks[metric].pc = "committed" =>
                    /\ tasks[metric].undefined_table = 1
                    /\ tasks[metric].create_table = 1
                    /\ tasks[metric].copies =
                            2 + Cardinality(ColumnsToAdd(tasks[metric].datums))

\* A batch with a column besides time has met no table and is committed.
C4_Witness ==
    \E metric \in Metrics :
        /\ tasks[metric].fresh
        /\ tasks[metric].pc = "committed"
        /\ tasks[metric].copies >= 3
        /\ committed[clean_id(metric)] # << >>

\* ------------------------------------------------------------ the consumer

\* p is an initial part of s.
IsPrefix(p, s) == Len(p) <= Len(s) /\ SubSeq(s, 1, Len(p)) = p

\* The datums of a working set that are of one metric, in their order.
OfMetric(working, metric) == SelectSeq(working, LAMBDA d : d.metric = metric)

\* C5: the batch received and then the batches queued when the sleep ended are
\* the beginning of the working set, each datum once and in queue order; each
\* metric's task has all the datums of its metric; it passes rows to one COPY
\* at most, whose columns are time and the names of all those datums, and
\* which, when it commits, has one row for each of them.
C5_Coalescing ==
    /\ cpc = "try_recv" =>
            IsPrefix(window.received \o window.queued, batch \o Flatten(queue))
    /\ cpc = "await" =>
            /\ IsPrefix(window.received \o window.queued, batch)
            /\ \A i, j \in DOMAIN batch :
                    batch[i].unix_nanos = batch[j].unix_nanos => i = j
            /\ \A metric \in Metrics :
                    /\ tasks[metric].datums = OfMetric(batch, metric)
                    /\ tasks[metric].written <= 1
                    /\ tasks[metric].written = 1 =>
                            {tasks[metric].names[i] : i \in DOMAIN tasks[metric].names}
                                = {TimeColumn} \cup ColumnsToAdd(OfMetric(batch, metric))
                    /\ tasks[metric].pc = "committed" =>
                            /\ Len(tasks[metric].passed) = Len(OfMetric(batch, metric))
                            /\ \A i \in DOMAIN tasks[metric].passed :
                                    tasks[metric].passed[i][1].nanos =
                                        OfMetric(batch, metric)[i].unix_nanos

\* Two datums of one metric, the second queued while the consumer slept, are
\* committed by one COPY.
C5_Witness ==
    /\ cpc = "await"
    /\ Len(window.received) = 1
    /\ Len(window.queued) = 1
    /\ \E metric \in Metrics :
            /\ tasks[metric].pc = "committed"
            /\ tasks[metric].written = 1
            /\ Len(tasks[metric].passed) = 2

\* C7: no outcome of a task stops the consumer: once it awaits the tasks of a
\* working set it comes back to receive from the queue; it ends only when the
\* queue is closed and empty, and it ends with Ok.
C7_ConsumerGoesOn ==
    /\ [](result \in {"running", "Ok(1)"})
    /\ [](cpc = "ended" => closed /\ queue = << >>)
    /\ (cpc = "await") ~> (cpc = "recv")

\* C8: once the queue is closed the consumer receives every batch that is
\* queued, and then it ends.
C8_CooperativeShutdown ==
    /\ [](cpc = "ended" => queue = << >> /\ batch = << >>)
    /\ closed ~> (cpc = "ended")

\* --------------------------------------------------------- column order

\* The dimension names of the batch that some datum carries with a value, and
\* its measurement names likewise.
DimensionColumns ==
    {k \in DimNames : \E i \in DOMAIN arg :
        k \in DOMAIN arg[i].dimensions /\ arg[i].dimensions[k] # "None"}
MeasurementColumns ==
    {k \in MeasNames : \E i \in DOMAIN arg :
        k \in DOMAIN arg[i].measurements /\ arg[i].measurements[k] # "None"}

\* The names of a set in ascending byte order: the sequence of all of them in
\* which a greater index has a greater first byte.
Ascending(S) ==
    CHOOSE seq \in [1..Cardinality(S) -> S] :
        \A i, j \in 1..Cardinality(S) : i < j => Byte(seq[i]) < Byte(seq[j])

\* C9: the COPY statement of a batch names time, then the batch's dimension
\* names in ascending byte order, then its measurement names in ascending byte
\* order, each as its SQL identifier; the type list and every row passed to the
\* writer are in that order: position i of the types is the type of a value
\* the batch has under the name of position i, and position i of a row is the
\* value read for that name.
C9_ColumnOrderAgrees ==
    ret.called =>
        LET dims == Ascending(DimensionColumns)
            meas == Ascending(MeasurementColumns)
            nd == Len(dims)
            nm == Len(meas)
        IN  /\ Len(ret.names) = 1 + nd + nm
            /\ Len(ret.types) = 1 + nd + nm
            /\ ret.names[1] = TimeColumn
            /\ ret.types[1] = "TIMESTAMPTZ"
            /\ \A i \in 1..nd :
                    /\ ret.names[1 + i] = clean_id(dims[i])
                    /\ \E d \in DOMAIN arg :
                            /\ dims[i] \in DOMAIN arg[d].dimensions
                            /\ ret.types[1 + i] =
                                    dimension_sql_type(arg[d].dimensions[dims[i]])
            /\ \A j \in 1..nm :
                    /\ ret.names[1 + nd + j] = clean_id(meas[j])
                    /\ \E d \in DOMAIN arg :
                            /\ meas[j] \in DOMAIN arg[d].measurements
                            /\ ret.types[1 + nd + j] =
                                    measurement_sql_type(arg[d].measurements[meas[j]])
            /\ \A r \in DOMAIN ret.passed :
                    /\ Len(ret.passed[r]) = 1 + nd + nm
                    /\ ret.passed[r][1].of = TimeColumn
                    /\ \A i \in 1..nd : ret.passed[r][1 + i].of = dims[i]
                    /\ \A j \in 1..nm : ret.passed[r][1 + nd + j].of = meas[j]
                    /\ \A c \in 1..(1 + nd + nm) :
                            ret.passed[r][c].nanos = arg[r].unix_nanos

\* A batch with a dimension column and a measurement column has passed two
\* rows to the writer, which has committed them.
C9_Witness ==
    /\ ret.called
    /\ Cardinality(DimensionColumns) >= 1
    /\ Cardinality(MeasurementColumns) >= 1
    /\ Len(ret.passed) = 2
    /\ ret.rows = ret.passed

\* C10: every row passed to the COPY writer has a value for each column of the
\* batch: 1 + the number of dimension columns + the number of measurement
\* columns, whatever its datum carries.
C10_RowArity ==
    ret.called =>
        \A r \in DOMAIN ret.passed :
            /\ Len(ret.passed[r]) = Len(ret.names)
            /\ Len(ret.passed[r]) =
                    1 + Cardinality(DimensionColumns) + Cardinality(MeasurementColumns)

\* A row has been passed for a datum that lacks a dimension of the batch.
C10_Witness ==
    /\ ret.called
    /\ \E r \in DOMAIN ret.passed :
            /\ DimensionColumns \ DOMAIN arg[r].dimensions # {}
            /\ \E c \in DOMAIN ret.passed[r] : ret.passed[r][c].rust = "Option<String>"
    /\ ret.wrote
    /\ ret.error = NoError

\* ------------------------------------------------------------ sparse datums

\* Every value the batch carries under one name is of one variant, and no
\* value is unset.
OneVariantPerName ==
    /\ \A i \in DOMAIN arg :
            /\ \A k \in DOMAIN arg[i].dimensions : arg[i].dimensions[k] # "None"
            /\ \A k \in DOMAIN arg[i].measurements : arg[i].measurements[k] # "None"
    /\ \A i, j \in DOMAIN arg :
            /\ \A k \in DOMAIN arg[i].dimensions \cap DOMAIN arg[j].dimensions :
                    arg[i].dimensions[k] = arg[j].dimensions[k]
            /\ \A k \in DOMAIN arg[i].measurements \cap DOMAIN arg[j].measurements :
                    arg[i].measurements[k] = arg[j].measurements[k]

\* Every datum of the batch carries every measurement of the batch.
DenseMeasurements ==
    \A i \in DOMAIN arg : MeasurementColumns \subseteq DOMAIN arg[i].measurements

\* The value of row r that was read for dimension or measurement name k, in the
\* dimension part (from position 2) or the measurement part of the row.
DimensionCellOf(r, k) ==
    ret.passed[r][1 + CHOOSE i \in 1..Cardinality(DimensionColumns) :
                        Ascending(DimensionColumns)[i] = k]

\* C11: a datum that omits a dimension of its batch still has its row written,
\* with NULL under that dimension, whatever the type of the column; the writer
\* refuses no row of a batch for it. (The batch is one whose values agree in
\* variant name by name and whose measurements are dense, and the COPY
\* statement was accepted.)
C11_AbsentDimensionIsNull ==
    (ret.called /\ ret.wrote /\ OneVariantPerName /\ DenseMeasurements) =>
        /\ ret.error # PostgresError("WrongType")
        /\ Len(ret.passed) = Len(arg)
        /\ \A r \in DOMAIN ret.passed :
                \A k \in DimensionColumns \ DOMAIN arg[r].dimensions :
                    DimensionCellOf(r, k).rust = "Option<String>"

\* Every datum of the batch carries every dimension of the batch.
DenseDimensions ==
    \A i \in DOMAIN arg : DimensionColumns \subseteq DOMAIN arg[i].dimensions

\* The value of row r that was read for measurement name k.
MeasurementCellOf(r, k) ==
    ret.passed[r][1 + Cardinality(DimensionColumns)
                    + CHOOSE j \in 1..Cardinality(MeasurementColumns) :
                        Ascending(MeasurementColumns)[j] = k]

\* C12: a datum that omits a measurement of its batch has its row written with
\* NULL under that measurement, and write_and_close completes: it passes a row
\* for every datum and does not panic. (The batch is one whose values agree in
\* variant name by name and whose dimensions are dense, and the COPY statement
\* was accepted.)
C12_AbsentMeasurementIsNull ==
    (ret.called /\ ret.wrote /\ OneVariantPerName /\ DenseDimensions) =>
        /\ ret.error # Panic
        /\ Len(ret.passed) = Len(arg)
        /\ \A r \in DOMAIN ret.passed :
                \A k \in MeasurementColumns \ DOMAIN arg[r].measurements :
                    MeasurementCellOf(r, k).rust = "Option<f64>"

\* ---------------------------------------------------------------- grouping

\* Where the working set holds datum d (its unix_nanos tells it from the others).
PlaceOf(d) == CHOOSE i \in DOMAIN batch : batch[i].unix_nanos = d.unix_nanos

\* The places (metric, position) at which the groups g hold the datum of
\* place i of the working set.
PlacesInGroups(g, i) ==
    {<< metric, p >> \in UNION {{metric} \X DOMAIN g[metric] : metric \in DOMAIN g} :
        g[metric][p] = batch[i]}

\* C13: group_metrics puts every datum of the working set into exactly one
\* group, that of its metric, and a group keeps the order its datums have in
\* the working set; the task of a metric has its group, passes the rows to the
\* writer in that order, and the table gains them in that order.
C13_GroupingKeepsOrder ==
    LET g == group_metrics(batch)
    IN  /\ DOMAIN g = {batch[i].metric : i \in DOMAIN batch}
        /\ \A i \in DOMAIN batch :
                /\ Cardinality(PlacesInGroups(g, i)) = 1
                /\ \A place \in PlacesInGroups(g, i) : place[1] = batch[i].metric
        /\ \A metric \in DOMAIN g :
                \A p, q \in DOMAIN g[metric] :
                    p < q => PlaceOf(g[metric][p]) < PlaceOf(g[metric][q])
        /\ cpc = "await" =>
                \A metric \in DOMAIN g :
                    /\ tasks[metric].datums = g[metric]
                    /\ \A r \in DOMAIN tasks[metric].passed :
                            tasks[metric].passed[r][1].nanos = g[metric][r].unix_nanos
                    /\ tasks[metric].pc = "committed" =>
                            LET rows == committed[clean_id(metric)]
                                n == Len(g[metric])
                            IN  /\ Len(rows) >= n
                                /\ \A r \in 1..n :
                                        rows[Len(rows) - n + r][1].nanos =
                                            g[metric][r].unix_nanos

\* One received batch holds two datums of one metric, and their rows are
\* committed.
C13_Witness ==
    /\ cpc = "await"
    /\ Len(window.received) = 2
    /\ batch[1].metric = batch[2].metric
    /\ tasks[batch[1].metric].pc = "committed"
    /\ Len(committed[clean_id(batch[1].metric)]) >= 2

\* ----------------------------------------------------------- the classifier

\* The classifier answers for the task's error in this step.
Classifies(metric) ==
    /\ tasks[metric].pc = "handle_error"
    /\ tasks'[metric] # tasks[metric]

\* C14: the classifier asks for another attempt only for a missing table once
\* the table is created and for a missing column once the column is added. For
\* a database error of any other kind (permission denied, another SQL state, a
\* row the writer refused, a broken transport) the batch is dropped and the
\* schema is left as it is; when the DDL statement fails the batch is dropped
\* too.
C14_ErrorClassification ==
    [][\A metric \in Metrics :
        Classifies(metric) =>
            LET e == tasks[metric].error
            IN  /\ tasks'[metric].pc = "use_connection" =>
                    /\ e.kind \in {"MissingTable", "MissingColumn"}
                    /\ table_exists(columns', clean_id(e.table))
                    /\ e.kind = "MissingColumn" =>
                            clean_id(e.column) \in DOMAIN columns'[clean_id(e.table)]
                /\ e.kind = "Postgres" =>
                    /\ tasks'[metric].pc = "dropped"
                    /\ columns' = columns
                /\ e.kind \in {"MissingTable", "MissingColumn"} =>
                    \/ tasks'[metric].pc = "use_connection"
                    \/ tasks'[metric].pc = "dropped" /\ columns' = columns
      ]_vars

\* A task has tried again after a DDL statement and has then been dropped for a
\* refusal that came after rows were passed to the writer.
C14_Witness ==
    \E metric \in Metrics :
        /\ tasks[metric].pc = "dropped"
        /\ tasks[metric].copies >= 2
        /\ tasks[metric].written = 1

\* C15: an attempt that fails with a DescribedError (the server reports a
\* missing column that is no dimension or measurement key of the batch) ends
\* the task normally with the batch dropped: the classifier answers no retry.
C15_DescribedErrorDrops ==
    [][\A metric \in Metrics :
        (Classifies(metric) /\ tasks[metric].error.kind = "DescribedError") =>
            tasks'[metric].pc = "dropped"
      ]_vars

\* ------------------------------------------------------------- the barrier

\* C16: the consumer takes nothing from the queue while a task of the current
\* working set has not ended, and it leaves batch_tasks.await only when every
\* task it spawned has returned or panicked.
C16_FanOutBarrier ==
    [][/\ Len(queue') < Len(queue) => \A metric \in Metrics : ~ Running(metric)
       /\ (cpc = "await" /\ cpc' # "await") =>
                \A metric \in Metrics : tasks[metric].pc \in Finished \cup {"none"}
      ]_vars

\* The consumer has received a batch after the tasks of an earlier working set
\* committed their rows.
C16_Witness ==
    /\ cpc \in {"sleep", "try_recv"}
    /\ batch # << >>
    /\ \E t \in Tables : committed[t] # << >>

\* -------------------------------------------------------------- isolation

\* A step of the task of `metric`.
StepOf(metric) == cpc = "await" /\ cpc' = "await" /\ tasks'[metric] # tasks[metric]

TypeName(type) ==
    CASE type = "TEXT" -> "text"
      [] type = "INT8" -> "int8"
      [] type = "BOOL" -> "boolean"
      [] type = "FLOAT8" -> "float8"
      [] type = "statistic_set" -> "statistic_set"
      [] type = "JSONB" -> "jsonb"
      [] OTHER -> "timestamptz"

\* C18: when run_a_batch answers MissingColumn for column X, the data type it
\* gives for add_column is the type the COPY statement of the batch binds to a
\* column X.
C18_FixUsesBatchType ==
    (ret.called /\ ret.error.kind = "MissingColumn") =>
        \E i \in DOMAIN ret.names :
            /\ ret.names[i] = ret.error.column
            /\ TypeName(ret.types[i]) = ret.error.data_type

\* ------------------------------------------------------ the type maps

\* The places of the datums that carry the dimension with a value.
DimensionCarriers(datums, k) ==
    {i \in DOMAIN datums :
        k \in DOMAIN datums[i].dimensions /\ datums[i].dimensions[k] # "None"}

\* The places of the datums that carry the measurement with a value.
MeasurementCarriers(datums, k) ==
    {i \in DOMAIN datums :
        k \in DOMAIN datums[i].measurements /\ datums[i].measurements[k] # "None"}

Last(S) == CHOOSE i \in S : \A j \in S : j <= i

\* C19: the keys of a type map are exactly the names that some datum of the
\* batch carries with a value, and the type of a name is the type of the last
\* datum, in batch order, that carries it with a value; the COPY statement of
\* run_a_batch binds these types.
C19_TypeMapProjection ==
    LET dimension_types == get_dimension_type_map(arg)
        measurement_types == get_measurement_type_map(arg)
    IN  /\ DOMAIN dimension_types =
                {k \in DimNames : DimensionCarriers(arg, k) # {}}
        /\ \A k \in DOMAIN dimension_types :
                dimension_types[k] = dimension_sql_type(
                    arg[Last(DimensionCarriers(arg, k))].dimensions[k])
        /\ DOMAIN measurement_types =
                {k \in MeasNames : MeasurementCarriers(arg, k) # {}}
        /\ \A k \in DOMAIN measurement_types :
                measurement_types[k] = measurement_sql_type(
                    arg[Last(MeasurementCarriers(arg, k))].measurements[k])
        /\ ret.called =>
                ret.types = << "TIMESTAMPTZ" >> \o values(dimension_types)
                                \o values(measurement_types)

\* Two datums carry a dimension with different variants, the later datum
\* carries a measurement without a value that the earlier one carries with a
\* value, and run_a_batch has been called.
C19_Witness ==
    /\ ret.called
    /\ Len(arg) = 2
    /\ DimensionCarriers(arg, "a") = {1, 2}
    /\ arg[1].dimensions["a"] # arg[2].dimensions["a"]
    /\ MeasurementCarriers(arg, "v") = {1}
    /\ "v" \in DOMAIN arg[2].measurements

\* ------------------------------------------------------ connection scoping

\* The connections the tasks hold.
HeldByTasks == tasks["m"].held + tasks["n"].held

\* C20: a task holds at most one pooled connection, it holds one exactly
\* while it runs the COPY or the classifier, so it holds none when it checks
\* one out and none after any exit of the attempt, and the pool has no
\* connection out that no task holds.
C20_ConnectionScoping ==
    /\ \A metric \in Metrics :
        /\ tasks[metric].held \in {0, 1}
        /\ tasks[metric].held = 1 <=>
                tasks[metric].pc \in {"run_a_batch", "handle_error"}
    /\ in_use = HeldByTasks

\* One task holds the connection of the classifier after its COPY was refused,
\* the other has returned early on a failed checkout; one connection is out.
C20_Witness ==
    /\ tasks["m"].pc = "handle_error"
    /\ tasks["m"].copies >= 1
    /\ tasks["n"].pc = "Err"
    /\ in_use = 1

\* ------------------------------------------------------------ startup

\* The consumer or a producer has done something.
SinkTouched ==
    \/ queue # << >>
    \/ closed
    \/ cpc # "recv"
    \/ batch # << >>
    \/ result # "running"
    \/ \E metric \in Metrics : tasks[metric].pc # "none"
    \/ \E t \in Tables : committed[t] # << >> \/ columns[t] # EmptyMap

\* C21: the consumer runs only after the connector is built and both composite
\* types are in the database; when the connector or a type could not be set up
\* run_server is on its way out, no consumer is started and nothing is processed.
C21_StartupOrdering ==
    /\ (SinkTouched \/ startup.pc = "consume_stuff") =>
            /\ startup.pc = "consume_stuff"
            /\ startup.connector
            /\ startup.types = CompositeTypes
            /\ startup.error = "none"
    /\ startup.error # "none" =>
            /\ startup.pc \in {"Err", "exit"}
            /\ ~ SinkTouched

\* The consumer, started after both composite types were ensured, has
\* committed rows.
C21_Witness ==
    /\ startup.pc = "consume_stuff"
    /\ startup.types = CompositeTypes
    /\ \E t \in Tables : committed[t] # << >>

\* ------------------------------------------------------ the column list

\* C22: the column list of the COPY statement run_a_batch builds names no
\* column twice.
C22_ColumnListHasNoDuplicate ==
    ret.called =>
        \A i, j \in DOMAIN ret.names : ret.names[i] = ret.names[j] => i = j

\* ------------------------------------------------------------ the pool

\* The connections the further tasks hold.
HeldByCrowd == crowd.run_a_batch + crowd.handle_error

\* A task waits on a checkout.
WaitingOnCheckout ==
    \/ tasks["m"].pc \in {"use_connection", "use_connection_again"}
    \/ crowd.use_connection + crowd.use_connection_again > 0

\* A task of the working set has not finished.
Unfinished == tasks["m"].pc \notin Finished \/ crowd.finished < CrowdSize

\* A database operation of a task that holds a connection completes, and the
\* connection is released.
OperationCompletes ==
    \/ RunABatch("m")
    \/ HandleError("m")
    \/ CrowdRunABatch
    \/ CrowdHandleError

\* The steps a task at this place of send_some has before it, a retry apart.
StepsLeft(pc) ==
    CASE pc = "use_connection" -> 4
      [] pc = "run_a_batch" -> 3
      [] pc = "use_connection_again" -> 2
      [] pc = "handle_error" -> 1
      [] OTHER -> 0

\* The columns the table of the followed task can still gain: a retry follows
\* a schema fix, which adds one.
SchemaLeft ==
    Cardinality({TimeColumn} \cup {clean_id(k) : k \in DimNames \cup MeasNames})
        - Cardinality(DOMAIN columns[clean_id("m")])

\* A bound on the steps the tasks of the working set have before them.
StepsBound ==
    4 * SchemaLeft + StepsLeft(tasks["m"].pc)
        + 4 * crowd.use_connection + 3 * crowd.run_a_batch
        + 2 * crowd.use_connection_again + crowd.handle_error
        + 4 * (MaxCrowdFixes - crowd.fixes)

\* C23: with one task more than the pool has connections, no more than
\* max_conns connections are checked out; while a task has not finished, a
\* task waits on a checkout and a connection is free, or a task that holds one
\* can complete its operation and release it, so no set of tasks waits on one
\* another; and every step brings
\* the bound on the steps left down, so the tasks, polled fairly, all obtain
\* their connections and finish.
C23_NoPoolDeadlock ==
    /\ [](in_use <= max_conns)
    /\ [](Unfinished =>
            \/ WaitingOnCheckout /\ in_use < max_conns
            \/ ENABLED OperationCompletes)
    /\ [][StepsBound' < StepsBound]_vars

\* Every connection of the pool is checked out by a further task and the task
\* of "m" waits on its second checkout.
C23_Witness ==
    /\ in_use = max_conns
    /\ HeldByCrowd = max_conns
    /\ tasks["m"].pc = "use_connection_again"

====
